---------------------------- MODULE Spec2Model ----------------------------
(***************************************************************************)
(* A model of taichi's 3D material point method step (MPM3D, mpm3.cpp) and *)
(* of the asset registry (AssetManager, asset_manager.h).                  *)
(*                                                                         *)
(* Numbers.  The code computes in 32-bit floats.  The model computes in    *)
(* fixed point: a position is an integer count of 1/PosDen of a grid cell, *)
(* a kernel weight an integer count of 1/WDen, a kernel gradient an        *)
(* integer count of 1/GDen, and a division rounds towards zero (Quot).     *)
(* Where the order of float additions is what a claim is about (the        *)
(* scatter under per-node locks), the sums are rounded to MantBits         *)
(* significant bits, round-to-nearest-even, as a float addition is.        *)
(***************************************************************************)
EXTENDS Integers, Sequences, FiniteSets, TLC

VARIABLES
    \* ---- MPM3D (mpm3.cpp) ----
    particles,              \* pid -> particle record (std::vector<MPM3Particle*>)
    async,                  \* config "async"
    max_dt_ratio,           \* int64(maximum_delta_t / base_delta_t)
    current_t_int,          \* integer tick
    current_t,              \* current_t_int * base_delta_t
    old_t_int,
    t_int_increment,
    original_t_int_increment,
    grid_mass,              \* node -> mass
    grid_velocity,          \* node -> velocity
    grid_velocity_backup,   \* node -> velocity
    grid_locks,             \* node -> 0 (free) or the thread holding it
    scheduler,              \* the MPM3Scheduler's state
    levelset,               \* the implicit-surface oracle, sampled per node
    pc,                     \* the stage substep() is about to run
    stage_log,              \* the stages the current substep() has run, in order
    force_done,             \* particles whose calculate_force has returned
    proj_done,              \* particles whose force has been projected
    ncalls,                 \* how many times substep() was called
    \* ---- the two scatter loops, thread by thread ----
    th,                     \* thread -> [pc, k, tmp]: position in its loop
    contrib,                \* thread -> node -> the value it adds to the node
    phase,                  \* "rasterize" | "force" | "done"
    \* ---- AssetManager (asset_manager.h) ----
    counter, asset_to_id, id_to_asset,
    heap,                   \* address -> generation of the live object there, 0 if none
    next_gen,               \* generation the next allocated object gets
    returned,               \* ids returned by insert_asset_, in order
    last_call               \* outcome of the last AssetManager call

mpm_vars == <<particles, async, max_dt_ratio, current_t_int, current_t, old_t_int,
              t_int_increment, original_t_int_increment, grid_mass, grid_velocity,
              grid_velocity_backup, scheduler, levelset, pc, stage_log, force_done,
              proj_done, ncalls>>
scatter_vars == <<th, contrib, phase, grid_locks>>
asset_vars == <<counter, asset_to_id, id_to_asset, heap, next_gen, returned, last_call>>
vars == <<mpm_vars, scatter_vars, asset_vars>>

-----------------------------------------------------------------------------
(* Bounds of the model and the fixed-point units.                          *)

\* A position is a count of 1/PosDen of a cell.
PosDen == 2
\* config "resolution": cells per axis; the grid has Res[a]+1 nodes per axis.
Res == <<3, 3, 3>>
\* config "base_delta_t", in time units per tick.
base_delta_t == 1
\* `eps' of the clamp in substep(), one position unit.
eps == 1
\* config "gravity", in position units per time unit squared.
gravity == <<0, -1, 0>>
\* config "apic" (default true) and "affine_damping" (default 0).
apic == TRUE
affine_damping == 0

Axes == 1..3
Nodes == (0..Res[1]) \X (0..Res[2]) \X (0..Res[3])
Cells == (0..(Res[1]-1)) \X (0..(Res[2]-1)) \X (0..(Res[3]-1))

\* Scale of a 1D kernel weight, of a 1D kernel gradient, and of their 3D products.
WDen == 6 * PosDen * PosDen * PosDen
GDen == 2 * PosDen * PosDen
W3Den == WDen * WDen * WDen
GW3Den == GDen * WDen * WDen

-----------------------------------------------------------------------------
(* Arithmetic helpers.                                                     *)

Abs(x) == IF x < 0 THEN -x ELSE x
Min(a, b) == IF a < b THEN a ELSE b
Max(a, b) == IF a > b THEN a ELSE b
\* Division rounding towards zero, like a C++ integer or truncated float division.
Quot(a, b) == IF (a < 0) = (b < 0) THEN Abs(a) \div Abs(b) ELSE -(Abs(a) \div Abs(b))
clamp(x, lo, hi) == IF x < lo THEN lo ELSE IF x > hi THEN hi ELSE x

RECURSIVE SumF(_, _)
SumF(f, S) == IF S = {} THEN 0
              ELSE LET x == CHOOSE y \in S : TRUE IN f[x] + SumF(f, S \ {x})

Zero3 == <<0, 0, 0>>
VAdd(a, b) == <<a[1] + b[1], a[2] + b[2], a[3] + b[3]>>
VSub(a, b) == <<a[1] - b[1], a[2] - b[2], a[3] - b[3]>>
VScale(k, a) == <<k * a[1], k * a[2], k * a[3]>>
VQuot(a, k) == <<Quot(a[1], k), Quot(a[2], k), Quot(a[3], k)>>
Dot(a, b) == a[1] * b[1] + a[2] * b[2] + a[3] * b[3]
VSumF(f, S) == <<SumF([x \in S |-> f[x][1]], S), SumF([x \in S |-> f[x][2]], S),
                 SumF([x \in S |-> f[x][3]], S)>>

ZeroM == <<Zero3, Zero3, Zero3>>
IdM == <<<<1, 0, 0>>, <<0, 1, 0>>, <<0, 0, 1>>>>
MAdd(A, B) == <<VAdd(A[1], B[1]), VAdd(A[2], B[2]), VAdd(A[3], B[3])>>
MScale(k, A) == <<VScale(k, A[1]), VScale(k, A[2]), VScale(k, A[3])>>
MQuot(A, k) == <<VQuot(A[1], k), VQuot(A[2], k), VQuot(A[3], k)>>
MVec(A, x) == <<Dot(A[1], x), Dot(A[2], x), Dot(A[3], x)>>
Col(B, j) == <<B[1][j], B[2][j], B[3][j]>>
MMul(A, B) == [i \in Axes |-> [j \in Axes |-> Dot(A[i], Col(B, j))]]
\* glm::outerProduct(c, r): column vector c times row vector r.
outerProduct(c, r) == <<VScale(c[1], r), VScale(c[2], r), VScale(c[3], r)>>
MSumF(f, S) == <<VSumF([x \in S |-> f[x][1]], S), VSumF([x \in S |-> f[x][2]], S),
                 VSumF([x \in S |-> f[x][3]], S)>>

-----------------------------------------------------------------------------
(* InterpolationKernel: mpm3.cpp lines 20-52.                              *)

\* A kernel that does not take the absolute value of its argument.
w_NoAbs(m) ==
    IF m < PosDen
    THEN 3 * m * m * m - 6 * m * m * PosDen + 4 * PosDen * PosDen * PosDen
    ELSE 0 - m * m * m + 6 * m * m * PosDen - 12 * m * PosDen * PosDen
           + 8 * PosDen * PosDen * PosDen

\* w(x), x = m/PosDen, times WDen.  The code asserts |x| <= 2.
w(m) ==
    LET x == Abs(m) IN
    IF x < PosDen
    THEN 3 * x * x * x - 6 * x * x * PosDen + 4 * PosDen * PosDen * PosDen
    ELSE 0 - x * x * x + 6 * x * x * PosDen - 12 * x * PosDen * PosDen
           + 8 * PosDen * PosDen * PosDen

\* dw(x), x = m/PosDen, times GDen.
dw(m) ==
    LET s == IF m < 0 THEN -1 ELSE 1
        x == m * s
        val == IF x < PosDen THEN 3 * x * x - 4 * x * PosDen
               ELSE 0 - x * x + 4 * x * PosDen - 4 * PosDen * PosDen
    IN s * val

\* w(const Vector3 &a), times W3Den.
w3(a) == w(a[1]) * w(a[2]) * w(a[3])

\* dw(const Vector3 &a), times GW3Den.
dw3(a) == <<dw(a[1]) * w(a[2]) * w(a[3]), w(a[1]) * dw(a[2]) * w(a[3]),
            w(a[1]) * w(a[2]) * dw(a[3])>>

\* The 4x4x4 nodes around a position, cut to the grid's nodes.
RegionAxis(x, a) == Max(0, (x \div PosDen) - 1)..Min(Res[a], (x \div PosDen) + 2)

get_bounded_rasterization_region(pos) ==
    RegionAxis(pos[1], 1) \X RegionAxis(pos[2], 2) \X RegionAxis(pos[3], 3)

\* A node's coordinates in position units.
NodePos(ind) == VScale(PosDen, ind)


-----------------------------------------------------------------------------
(* Particles.                                                              *)

INACTIVE == "INACTIVE"
BUFFER == "BUFFER"
UPDATING == "UPDATING"

\* A particle as add_particles() leaves it (mpm3.cpp lines 85-98): unit mass, the
\* configured initial velocity, last_update = current_t_int.
NewParticle(pos, v, t) ==
    [pos |-> pos, v |-> v, mass |-> 1, apic_b |-> ZeroM, dg_e |-> IdM, dg_p |-> IdM,
     dg_cache |-> IdM, tmp_force |-> ZeroM, state |-> INACTIVE, last_update |-> t]

Pids == DOMAIN particles

\* parallel_for_each_active_particle iterates scheduler.active_particles.
ActiveParticles == scheduler.active_particles

-----------------------------------------------------------------------------
(* TransferEngine: rasterize, mpm3.cpp lines 128-149.                      *)

\* The particles whose bounded region holds node ind.
Scattering(ind) ==
    {p \in ActiveParticles : ind \in get_bounded_rasterization_region(particles[p].pos)}

\* Lines 133-136: the mass node ind accumulates, times W3Den.
rasterize_mass(ind) ==
    LET C == Scattering(ind) IN
    SumF([p \in C |-> w3(VSub(NodePos(ind), particles[p].pos)) * particles[p].mass], C)

\* Line 137: the momentum node ind accumulates, times W3Den.  apic_b is in
\* velocity units times position units, d_pos in position units.
rasterize_momentum(ind) ==
    LET C == Scattering(ind) IN
    VSumF([p \in C |->
            LET d_pos == VSub(NodePos(ind), particles[p].pos)
                weight == w3(d_pos)
            IN VScale(weight * particles[p].mass,
                      VAdd(particles[p].v,
                           VQuot(VScale(3, MVec(particles[p].apic_b, d_pos)),
                                 PosDen * PosDen)))], C)

\* Lines 141-148: a node with mass > 0 gets momentum / mass, the others keep theirs.
rasterize_velocity(ind) ==
    IF rasterize_mass(ind) > 0
    THEN VQuot(rasterize_momentum(ind), rasterize_mass(ind))
    ELSE rasterize_momentum(ind)

-----------------------------------------------------------------------------
(* MPM3Scheduler.  Its code is not among the source files; what substep()  *)
(* calls is modelled from the specification's section 4.6.                 *)

\* The powers of two the scheduler can return as its maximum increment.
PotSet == {1, 2, 8}

\* get_largest_pot(n): the largest power of two not exceeding n >= 1.
get_largest_pot(n) == CHOOSE q \in {1, 2, 4, 8, 16, 32, 64} : q <= n /\ 2 * q > n

\* The scheduler cell a position lies in.
CellOf(pos) == <<pos[1] \div PosDen, pos[2] \div PosDen, pos[3] \div PosDen>>

Adjacent(c, d) == \A a \in Axes : Abs(c[a] - d[a]) <= 1

NewScheduler ==
    [states |-> [c \in Cells |-> 0],
     particle_groups |-> [p \in {} |-> Zero3],
     active_particles |-> {},
     active_grid_points |-> {},
     max_dt_int |-> 1,
     t |-> 0,
     smooth |-> 0]

\* scheduler.update_particle_groups(): every particle is filed under its cell.
update_particle_groups(s) ==
    [s EXCEPT !.particle_groups = [p \in Pids |-> CellOf(particles[p].pos)]]

\* scheduler.reset_particle_states(): every particle's activation state is reset.
reset_particle_states(ps) == [p \in DOMAIN ps |-> [ps[p] EXCEPT !.state = INACTIVE]]

\* scheduler.reset(): the cells' activation levels are cleared.
scheduler_reset(s) == [s EXCEPT !.states = [c \in Cells |-> 0]]

\* scheduler.update_dt_limits(t): the local limits are recomputed; what they come to
\* depends on data the model does not hold, so any power of two may result.
update_dt_limits(s, lim) == [s EXCEPT !.max_dt_int = lim]

\* scheduler.update_max_dt_int(current_t_int): the scheduler's maximum increment.
update_max_dt_int(s, t) == s.max_dt_int

\* scheduler.set_time(current_t_int).
set_time(s, t) == [s EXCEPT !.t = t]

\* scheduler.expand(false, true): the cells in U update this tick, their neighbours
\* are buffer cells, the rest stay inactive.
expand_states(U) ==
    [c \in Cells |-> IF c \in U THEN 2
                     ELSE IF \E d \in U : Adjacent(c, d) THEN 1 ELSE 0]

StateOfLevel(l) == IF l = 2 THEN UPDATING ELSE IF l = 1 THEN BUFFER ELSE INACTIVE

\* A particle takes the activation level of its cell.
expand_particles(ps, s) ==
    [p \in DOMAIN ps |-> [ps[p] EXCEPT !.state = StateOfLevel(s.states[s.particle_groups[p]])]]

\* scheduler.update(): the active sets are rebuilt from the cells' levels: the
\* particles of every cell that is not inactive, and the nodes in their support.
scheduler_update(s) ==
    [s EXCEPT
        !.active_particles = {p \in DOMAIN s.particle_groups :
                                 s.states[s.particle_groups[p]] # 0},
        !.active_grid_points =
            {ind \in Nodes : \E c \in Cells :
                /\ s.states[c] # 0
                /\ \A a \in Axes : ind[a] >= c[a] - 1 /\ ind[a] <= c[a] + 2}]

\* scheduler.enforce_smoothness(original_t_int_increment).
enforce_smoothness(s, inc) == [s EXCEPT !.smooth = inc]

-----------------------------------------------------------------------------
(* Grid passes whose code is in the base class: modelled from section 4.2. *)

\* grid_backup_velocity(): snapshot of the grid velocity.
grid_backup_velocity(gv) == gv

\* grid_apply_external_force(gravity, delta_t) on one node.
grid_apply_external_force(gv, gm, acc, delta_t) ==
    [ind \in Nodes |-> IF gm[ind] > 0 THEN VAdd(gv[ind], VScale(delta_t, acc))
                       ELSE gv[ind]]

-----------------------------------------------------------------------------
(* ForceModel: apply_deformation_force, mpm3.cpp lines 194-215.            *)

\* p.calculate_force(): the particle's constitutive force, an external capability;
\* here a linear response to the cached deformation gradient.
calculate_force(p) == [p EXCEPT !.tmp_force = MAdd(IdM, MScale(-1, p.dg_cache))]

\* Lines 201-213 for one particle: the grid velocity after its force is projected.
project_force(gv, gm, p, delta_t) ==
    LET R == get_bounded_rasterization_region(p.pos) IN
    [ind \in Nodes |->
        IF ind \in R /\ gm[ind] # 0
        THEN LET d_pos == VSub(p.pos, NodePos(ind))
                 gw == dw3(d_pos)
                 force == MVec(p.tmp_force, gw)
             IN VAdd(gv[ind], VQuot(VScale(delta_t * 3 * PosDen, force), gm[ind]))
        ELSE gv[ind]]

-----------------------------------------------------------------------------
(* BoundaryHandler: grid_apply_boundary_conditions, mpm3.cpp lines 217-244.*)

ISqrt(n) == CHOOSE k \in 0..n : k * k <= n /\ (k + 1) * (k + 1) > n

\* Lines 231-236: Coulomb friction.  normalize(t) is t / length(t), kept as the
\* pair (t, len) so that the divisions are done last.
CoulombFriction(v, n, mu, pressure) ==
    LET t0 == VSub(v, VScale(Dot(v, n), n))
        len == ISqrt(Dot(t0, t0))
    IN IF len > 0
       THEN LET friction == 0 - clamp(Quot(Dot(t0, v), len), 0 - mu * pressure, mu * pressure)
            IN VAdd(VAdd(v, VScale(pressure, n)), VQuot(VScale(friction, t0), len))
       ELSE LET friction == 0 - clamp(Dot(t0, v), 0 - mu * pressure, mu * pressure)
            IN VAdd(VAdd(v, VScale(pressure, n)), VScale(friction, t0))

\* A sticky branch that leaves the relative velocity as it is.
StickyVelocity_Keep(v) == v

\* Lines 228-230: a sticky surface zeroes the relative velocity.
StickyVelocity(v) == Zero3

\* Lines 219-242 for one node: ls is the oracle's sample at the node (phi in
\* position units, n the gradient, td the temporal derivative), mu the friction.
boundary_velocity_of(ls) == VScale(ls.td, ls.n)

BoundaryNode(vin, ls, mu) ==
    IF PosDen < ls.phi \/ ls.phi < 0 - 3 * PosDen THEN vin
    ELSE LET bv == boundary_velocity_of(ls)
             v == VSub(vin, bv)
             v2 == IF ls.phi > 0
                   THEN LET pressure == Max(0 - Dot(v, ls.n), 0) IN
                        IF mu < 0 THEN StickyVelocity(v)
                        ELSE CoulombFriction(v, ls.n, mu, pressure)
                   ELSE IF ls.phi < 0
                   THEN VScale(Max(0, Dot(v, ls.n)), ls.n)
                   ELSE v
         IN VAdd(v2, bv)

grid_apply_boundary_conditions(gv, ls, active) ==
    [ind \in Nodes |-> IF ind \in active
                       THEN BoundaryNode(gv[ind], ls.sample[ind], ls.friction)
                       ELSE gv[ind]]

-----------------------------------------------------------------------------
(* TransferEngine: resample, mpm3.cpp lines 151-192.                       *)

\* A resample that gathers for every active particle.
ResampleGuard_Always(p) == TRUE

\* Line 156: only an UPDATING particle is resampled.
ResampleGuard(p) == p.state = UPDATING

\* Lines 158-190 for one particle.
resample_particle(p, gv, gvb, t_int) ==
    LET alpha_delta_t == IF apic THEN 0 ELSE 1
        delta_t == base_delta_t * (t_int - p.last_update)
        R == get_bounded_rasterization_region(p.pos)
        count == Cardinality(R)
        d(ind) == VSub(p.pos, NodePos(ind))
        v == VQuot(VSumF([ind \in R |-> VScale(w3(d(ind)), gv[ind])], R), W3Den)
        bv == VQuot(VSumF([ind \in R |-> VScale(w3(d(ind)), gvb[ind])], R), W3Den)
        bsum == MQuot(MSumF([ind \in R |->
                    MScale(w3(d(ind)), outerProduct(gv[ind], VScale(-1, d(ind))))], R),
                    W3Den)
        b == IF count # 64 \/ ~apic THEN ZeroM ELSE bsum
        damping == Max(0, 1 - delta_t * affine_damping)
        gsum == MSumF([ind \in R |-> outerProduct(gv[ind], dw3(d(ind)))], R)
        cdg == MAdd(IdM, MQuot(MScale(delta_t, gsum), GW3Den * PosDen))
        dg == MMul(MMul(cdg, p.dg_e), p.dg_p)
    IN [p EXCEPT
          !.apic_b = MScale(damping, b),
          !.v = VAdd(VScale(1 - alpha_delta_t, v),
                     VScale(alpha_delta_t, VAdd(VSub(v, bv), p.v))),
          !.dg_e = <<MMul(cdg, p.dg_e)[1], MMul(cdg, p.dg_e)[2], MMul(cdg, p.dg_e)[3]>>,
          !.dg_cache = <<dg[1], dg[2], dg[3]>>]

resample(ps, active, gv, gvb, t_int) ==
    [p \in DOMAIN ps |->
        IF p \in active /\ ResampleGuard(ps[p])
        THEN resample_particle(ps[p], gv, gvb, t_int)
        ELSE ps[p]]

-----------------------------------------------------------------------------
(* Position integration, mpm3.cpp lines 302-311.                           *)

\* A clamp that forgets the upper end.
ClampCoord_LowerOnly(x, a) == Max(x, 0)

\* Lines 306-308: the clamp of one coordinate to [0, res - eps].
ClampCoord(x, a) == clamp(x, 0, Res[a] * PosDen - eps)

\* p.plasticity(): the plasticity projection, an external capability of the
\* particle's material; it works on the deformation gradients.
plasticity(p) == p

integrate_particle(p, t_int) ==
    LET moved == VAdd(p.pos, VScale((t_int - p.last_update) * base_delta_t, p.v))
    IN plasticity([p EXCEPT
          !.pos = <<ClampCoord(moved[1], 1), ClampCoord(moved[2], 2),
                    ClampCoord(moved[3], 3)>>,
          !.last_update = t_int])

integrate(ps, t_int) ==
    [p \in DOMAIN ps |-> IF ps[p].state = UPDATING THEN integrate_particle(ps[p], t_int)
                         ELSE ps[p]]

\* p.resolve_collision(levelset, t): an external capability; the particle's velocity
\* into the surface is removed where its node is inside the surface.
resolve_collision(p, ls) ==
    LET s == ls.sample[CellOf(p.pos)] IN
    IF s.phi < 0 THEN [p EXCEPT !.v = VSub(p.v, VScale(Min(0, Dot(p.v, s.n)), s.n))]
    ELSE p

\* particle_collision_resolution, mpm3.cpp lines 246-252.
particle_collision_resolution(ps, active, ls) ==
    [p \in DOMAIN ps |->
        IF p \in active /\ ps[p].state = UPDATING THEN resolve_collision(ps[p], ls)
        ELSE ps[p]]

\* get_render_particles, mpm3.cpp lines 110-114: twice the position a particle is
\* rendered at, in position units (twice, because center is res / 2).
RenderPos(p) ==
    LET center2 == VScale(PosDen, Res)      \* 2 * center, in position units
        ahead == VScale((current_t_int - p.last_update) * base_delta_t, p.v)
    IN VAdd(VSub(VScale(2, p.pos), center2), VScale(2, ahead))

-----------------------------------------------------------------------------
(* Orchestrator: substep, mpm3.cpp lines 254-317, one action per stage.    *)

\* How many calls of substep() a run makes.
MaxCalls == 3

\* A step that does not look at the particle set.
SubstepGuard_Always == TRUE

\* Line 255: the whole step is skipped when there are no particles.
SubstepGuard == Pids # {}

\* The stage that follows a stage, in the order of lines 262-315.
StageOrder(stage) ==
    CASE stage = "update_particle_groups" -> "reset_particle_states"
      [] stage = "reset_particle_states" -> IF async THEN "scheduler_reset"
                                                     ELSE "sync_increment"
      [] stage = "scheduler_reset" -> "update_dt_limits"
      [] stage = "update_dt_limits" -> "select_increment"
      [] stage = "select_increment" -> "advance"
      [] stage = "advance" -> "expand"
      [] stage = "expand" -> "scheduler_update"
      [] stage = "sync_increment" -> "sync_mark"
      [] stage = "sync_mark" -> "scheduler_update"
      [] stage = "scheduler_update" -> "rasterize"
      [] stage = "rasterize" -> "grid_backup_velocity"
      [] stage = "grid_backup_velocity" -> "grid_apply_external_force"
      [] stage = "grid_apply_external_force" -> "calculate_force"
      [] stage = "calculate_force" -> "project_force"
      [] stage = "project_force" -> "grid_apply_boundary_conditions"
      [] stage = "grid_apply_boundary_conditions" -> "resample"
      [] stage = "resample" -> "integrate"
      [] stage = "integrate" -> "particle_collision_resolution"
      [] stage = "particle_collision_resolution" -> IF async THEN "enforce_smoothness"
                                                             ELSE "idle"
      [] stage = "enforce_smoothness" -> "idle"

\* A step that resolves collisions before it integrates the positions.
After_CollideFirst(stage) ==
    CASE stage = "resample" -> "particle_collision_resolution"
      [] stage = "particle_collision_resolution" -> "integrate"
      [] stage = "integrate" -> IF async THEN "enforce_smoothness" ELSE "idle"
      [] OTHER -> StageOrder(stage)

\* substep() runs its statements in the order they are written.
After(stage) == StageOrder(stage)

\* An increment that is not aligned to the tick.
AlignedIncrement_Unaligned(P, t_int) == P

\* Line 274: the increment that brings the tick to a multiple of P.
AlignedIncrement(P, t_int) == P - (t_int % P)

\* A sync branch that leaves the particles' states to the scheduler.
MarkAllUpdating_Skip(ps) == ps

\* Lines 286-288: every particle is marked UPDATING.
MarkAllUpdating(ps) == [p \in DOMAIN ps |-> [ps[p] EXCEPT !.state = UPDATING]]

\* Lines 196-198 are one parallel loop, lines 200-214 the next: the second starts
\* when every active particle's calculate_force has returned.
ForceJoin == force_done = ActiveParticles

time_vars == <<current_t_int, current_t, old_t_int, t_int_increment,
               original_t_int_increment>>
grid_vars == <<grid_mass, grid_velocity, grid_velocity_backup>>
force_vars == <<force_done, proj_done>>
config_vars == <<async, max_dt_ratio, levelset, ncalls>>

Step(stage) ==
    /\ pc = stage
    /\ pc' = After(stage)
    /\ stage_log' = Append(stage_log, stage)
    /\ UNCHANGED <<config_vars, scatter_vars, asset_vars>>

substep_call ==
    /\ pc = "idle"
    /\ ncalls < MaxCalls
    /\ ncalls' = ncalls + 1
    /\ IF SubstepGuard
       THEN /\ pc' = "update_particle_groups"
            /\ stage_log' = <<>>
            /\ force_done' = {}
            /\ proj_done' = {}
       ELSE UNCHANGED <<pc, stage_log, force_done, proj_done>>
    /\ UNCHANGED <<particles, async, max_dt_ratio, levelset, time_vars, grid_vars,
                   scheduler, scatter_vars, asset_vars>>

do_update_particle_groups ==
    /\ Step("update_particle_groups")
    /\ scheduler' = update_particle_groups(scheduler)
    /\ UNCHANGED <<particles, time_vars, grid_vars, force_vars>>

do_reset_particle_states ==
    /\ Step("reset_particle_states")
    /\ particles' = reset_particle_states(particles)
    /\ UNCHANGED <<scheduler, time_vars, grid_vars, force_vars>>

\* Lines 266-268.
do_scheduler_reset ==
    /\ Step("scheduler_reset")
    /\ old_t_int' = current_t_int
    /\ scheduler' = scheduler_reset(scheduler)
    /\ UNCHANGED <<particles, current_t_int, current_t, t_int_increment,
                   original_t_int_increment, grid_vars, force_vars>>

\* Line 269.
do_update_dt_limits ==
    /\ Step("update_dt_limits")
    /\ \E lim \in PotSet : scheduler' = update_dt_limits(scheduler, lim)
    /\ UNCHANGED <<particles, time_vars, grid_vars, force_vars>>

\* Lines 271-274.
do_select_increment ==
    /\ Step("select_increment")
    /\ original_t_int_increment' =
          Min(get_largest_pot(max_dt_ratio), update_max_dt_int(scheduler, current_t_int))
    /\ t_int_increment' = AlignedIncrement(original_t_int_increment', current_t_int)
    /\ UNCHANGED <<particles, current_t_int, current_t, old_t_int, scheduler, grid_vars,
                   force_vars>>

\* Lines 276-279.
do_advance ==
    /\ Step("advance")
    /\ current_t_int' = current_t_int + t_int_increment
    /\ current_t' = current_t_int' * base_delta_t
    /\ scheduler' = set_time(scheduler, current_t_int')
    /\ UNCHANGED <<particles, old_t_int, t_int_increment, original_t_int_increment,
                   grid_vars, force_vars>>

\* Line 281.
do_expand ==
    /\ Step("expand")
    /\ \E U \in SUBSET {scheduler.particle_groups[p] : p \in Pids} :
          /\ scheduler' = [scheduler EXCEPT !.states = expand_states(U)]
          /\ particles' = expand_particles(particles, scheduler')
    /\ UNCHANGED <<time_vars, grid_vars, force_vars>>

\* Lines 266, 284-285.
do_sync_increment ==
    /\ Step("sync_increment")
    /\ old_t_int' = current_t_int
    /\ t_int_increment' = 1
    /\ scheduler' = [scheduler EXCEPT !.states = [c \in Cells |-> 2]]
    /\ UNCHANGED <<particles, current_t_int, current_t, original_t_int_increment,
                   grid_vars, force_vars>>

\* Lines 286-290.
do_sync_mark ==
    /\ Step("sync_mark")
    /\ particles' = MarkAllUpdating(particles)
    /\ current_t_int' = current_t_int + t_int_increment
    /\ current_t' = current_t_int' * base_delta_t
    /\ UNCHANGED <<old_t_int, t_int_increment, original_t_int_increment, scheduler,
                   grid_vars, force_vars>>

\* Line 292.
do_scheduler_update ==
    /\ Step("scheduler_update")
    /\ scheduler' = scheduler_update(scheduler)
    /\ UNCHANGED <<particles, time_vars, grid_vars, force_vars>>

\* Line 296.
do_rasterize ==
    /\ Step("rasterize")
    /\ grid_mass' = [ind \in Nodes |-> rasterize_mass(ind)]
    /\ grid_velocity' = [ind \in Nodes |-> rasterize_velocity(ind)]
    /\ UNCHANGED <<particles, time_vars, grid_velocity_backup, scheduler, force_vars>>

\* Line 297.
do_grid_backup_velocity ==
    /\ Step("grid_backup_velocity")
    /\ grid_velocity_backup' = grid_backup_velocity(grid_velocity)
    /\ UNCHANGED <<particles, time_vars, grid_mass, grid_velocity, scheduler, force_vars>>

\* Line 298.
do_grid_apply_external_force ==
    /\ Step("grid_apply_external_force")
    /\ grid_velocity' = grid_apply_external_force(grid_velocity, grid_mass, gravity,
                                                  t_int_increment * base_delta_t)
    /\ UNCHANGED <<particles, time_vars, grid_mass, grid_velocity_backup, scheduler,
                   force_vars>>

\* Lines 196-198, one particle's iteration.
do_calculate_force(p) ==
    /\ pc = "calculate_force"
    /\ p \in ActiveParticles \ force_done
    /\ particles' = [particles EXCEPT ![p] = calculate_force(@)]
    /\ force_done' = force_done \cup {p}
    /\ UNCHANGED <<pc, stage_log, proj_done, time_vars, grid_vars, scheduler,
                   config_vars, scatter_vars, asset_vars>>

\* The end of the first parallel loop.
calculate_force_join ==
    /\ ForceJoin
    /\ Step("calculate_force")
    /\ UNCHANGED <<particles, time_vars, grid_vars, scheduler, force_vars>>

\* Lines 200-214, one particle's iteration.
do_project_force(p) ==
    /\ pc = "project_force"
    /\ p \in ActiveParticles \ proj_done
    /\ grid_velocity' = project_force(grid_velocity, grid_mass, particles[p],
                                      t_int_increment * base_delta_t)
    /\ proj_done' = proj_done \cup {p}
    /\ UNCHANGED <<pc, stage_log, force_done, particles, time_vars, grid_mass,
                   grid_velocity_backup, scheduler, config_vars, scatter_vars,
                   asset_vars>>

\* The end of the second parallel loop.
project_force_join ==
    /\ proj_done = ActiveParticles
    /\ Step("project_force")
    /\ UNCHANGED <<particles, time_vars, grid_vars, scheduler, force_vars>>

\* Line 300.
do_grid_apply_boundary_conditions ==
    /\ Step("grid_apply_boundary_conditions")
    /\ grid_velocity' = grid_apply_boundary_conditions(grid_velocity, levelset,
                                                       scheduler.active_grid_points)
    /\ UNCHANGED <<particles, time_vars, grid_mass, grid_velocity_backup, scheduler,
                   force_vars>>

\* Line 301.
do_resample ==
    /\ Step("resample")
    /\ particles' = resample(particles, ActiveParticles, grid_velocity,
                             grid_velocity_backup, current_t_int)
    /\ UNCHANGED <<time_vars, grid_vars, scheduler, force_vars>>

\* Lines 302-311.
do_integrate ==
    /\ Step("integrate")
    /\ particles' = integrate(particles, current_t_int)
    /\ UNCHANGED <<time_vars, grid_vars, scheduler, force_vars>>

\* Line 312.
do_particle_collision_resolution ==
    /\ Step("particle_collision_resolution")
    /\ particles' = particle_collision_resolution(particles, ActiveParticles, levelset)
    /\ UNCHANGED <<time_vars, grid_vars, scheduler, force_vars>>

\* Lines 313-315.
do_enforce_smoothness ==
    /\ Step("enforce_smoothness")
    /\ scheduler' = enforce_smoothness(scheduler, original_t_int_increment)
    /\ UNCHANGED <<particles, time_vars, grid_vars, force_vars>>

-----------------------------------------------------------------------------
(* Initial states.                                                         *)

ZeroGrid == [ind \in Nodes |-> Zero3]

\* A floor: the plane through the nodes of height 1, normal +y, at rest.
FloorLevelset ==
    [friction |-> 1,
     sample |-> [ind \in Nodes |->
                    [phi |-> (ind[2] - 1) * PosDen, n |-> <<0, 1, 0>>, td |-> 0]]]

\* Seeds: one in a cell whose 4x4x4 support is whole, one in the last cell of the
\* x axis moving outwards.
SeedInner == NewParticle(<<PosDen + 1, PosDen, PosDen>>, Zero3, 0)
SeedEdge == NewParticle(<<Res[1] * PosDen - 1, PosDen, PosDen>>, <<3, 0, 0>>, 0)

SeedSets == {[p \in {} |-> SeedInner],
             [p \in {1} |-> SeedInner],
             [p \in {1, 2} |-> IF p = 1 THEN SeedInner ELSE SeedEdge]}

ScatterIdle ==
    /\ th = <<>>
    /\ contrib = <<>>
    /\ phase = "off"
    /\ grid_locks = <<>>

AssetIdle ==
    /\ counter = 0
    /\ asset_to_id = <<>>
    /\ id_to_asset = <<>>
    /\ heap = <<>>
    /\ next_gen = 1
    /\ returned = <<>>
    /\ last_call = [op |-> "none", addr |-> "", id |-> -1, err |-> ""]

\* MPM3D after initialize() and add_particles().
MpmDefaults ==
    /\ current_t_int = 0
    /\ current_t = 0
    /\ old_t_int = 0
    /\ t_int_increment = 0
    /\ original_t_int_increment = 0
    /\ grid_mass = [ind \in Nodes |-> 0]
    /\ grid_velocity = ZeroGrid
    /\ grid_velocity_backup = ZeroGrid
    /\ stage_log = <<>>
    /\ force_done = {}
    /\ proj_done = {}
    /\ ncalls = 0

Init ==
    /\ async \in BOOLEAN
    /\ max_dt_ratio = IF async THEN 5 ELSE 1
    /\ particles \in SeedSets
    /\ scheduler = NewScheduler
    /\ levelset = FloorLevelset
    /\ pc = "idle"
    /\ MpmDefaults
    /\ ScatterIdle
    /\ AssetIdle

Next ==
    \/ substep_call
    \/ do_update_particle_groups
    \/ do_reset_particle_states
    \/ do_scheduler_reset
    \/ do_update_dt_limits
    \/ do_select_increment
    \/ do_advance
    \/ do_expand
    \/ do_sync_increment
    \/ do_sync_mark
    \/ do_scheduler_update
    \/ do_rasterize
    \/ do_grid_backup_velocity
    \/ do_grid_apply_external_force
    \/ \E p \in Pids : do_calculate_force(p)
    \/ calculate_force_join
    \/ \E p \in Pids : do_project_force(p)
    \/ project_force_join
    \/ do_grid_apply_boundary_conditions
    \/ do_resample
    \/ do_integrate
    \/ do_particle_collision_resolution
    \/ do_enforce_smoothness

Spec == Init /\ [][Next]_vars

-----------------------------------------------------------------------------
(* Properties of substep(), checked under Spec.                            *)

\* The stages of one substep() after the tick has advanced.
InTick == {"scheduler_update", "rasterize", "grid_backup_velocity",
           "grid_apply_external_force", "calculate_force", "project_force",
           "grid_apply_boundary_conditions", "resample", "integrate",
           "particle_collision_resolution", "enforce_smoothness"}

\* substep() has returned at least once from a step it did not skip.
Returned == pc = "idle" /\ ncalls > 0 /\ Pids # {}

\* C1: in asynchronous mode the chosen increment P is the smaller of the largest
\* power of two not above maximum_delta_t / base_delta_t and the scheduler's
\* maximum; t_int_increment is P - (T mod P) for the tick T the step started at,
\* and the tick it advances to, T + t_int_increment, is a multiple of P.
C1_SchedulerAlignment ==
    (async /\ (pc \in InTick \cup {"expand"} \/ Returned)) =>
        LET P == original_t_int_increment
            T == old_t_int
        IN /\ P = Min(get_largest_pot(max_dt_ratio), scheduler.max_dt_int)
           /\ P >= 1
           /\ T >= 0
           /\ t_int_increment = P - (T % P)
           /\ current_t_int = T + t_int_increment
           /\ current_t_int % P = 0

\* The example of the specification: T = 5, P = 4, increment 3, new tick 8.
C1_Witness ==
    /\ async
    /\ pc = "expand"
    /\ old_t_int = 5
    /\ original_t_int_increment = 4
    /\ t_int_increment = 3
    /\ current_t_int = 8

\* C2: in synchronous mode with particles, every substep advances the tick by
\* exactly one, every particle is UPDATING from the marking to the return, and
\* when substep returns every particle's last_update is the new tick.
C2_SyncUnitTick ==
    (~async /\ Pids # {}) =>
        /\ pc \in InTick =>
              /\ current_t_int = old_t_int + 1
              /\ \A p \in Pids : particles[p].state = UPDATING
        /\ pc = "idle" =>
              /\ current_t_int = ncalls
              /\ \A p \in Pids : particles[p].last_update = current_t_int
              /\ ncalls > 0 => \A p \in Pids : particles[p].state = UPDATING

C2_Witness ==
    /\ ~async
    /\ Cardinality(Pids) = 2
    /\ pc = "idle"
    /\ ncalls = 2
    /\ current_t_int = 2
    /\ \A p \in Pids : particles[p].last_update = 2

\* C3: with an empty particle set no step changes the tick, the time, the grid's
\* mass and velocity or the scheduler, whatever the mode.
C3_EmptyNoOp ==
    [][Pids = {} => UNCHANGED <<current_t_int, current_t, grid_mass, grid_velocity,
                               scheduler>>]_vars

C3_Witness == Pids = {} /\ ncalls = 2 /\ async /\ pc = "idle" /\ current_t_int = 0

\* Twice the coordinate, in the domain's frame, that get_render_particles reports.
Reported2(p, a) == RenderPos(p)[a] + PosDen * Res[a]

ExpectedStages ==
    <<"update_particle_groups", "reset_particle_states">>
    \o (IF async
        THEN <<"scheduler_reset", "update_dt_limits", "select_increment", "advance",
               "expand">>
        ELSE <<"sync_increment", "sync_mark">>)
    \o <<"scheduler_update", "rasterize", "grid_backup_velocity",
         "grid_apply_external_force", "calculate_force", "project_force",
         "grid_apply_boundary_conditions", "resample", "integrate",
         "particle_collision_resolution">>
    \o (IF async THEN <<"enforce_smoothness">> ELSE <<>>)

\* C7: a step that is not skipped runs the stages once each in the listed order,
\* enforce_smoothness last and only in asynchronous mode, and no force is
\* projected before every active particle's calculate_force has returned.
C7_PipelineOrder ==
    /\ Pids # {} =>
          /\ Len(stage_log) <= Len(ExpectedStages)
          /\ stage_log = SubSeq(ExpectedStages, 1, Len(stage_log))
          /\ pc # "idle" => pc = ExpectedStages[Len(stage_log) + 1]
          /\ Returned => stage_log = ExpectedStages
    /\ proj_done # {} => force_done = ActiveParticles
    /\ pc = "calculate_force" => proj_done = {}

C7_Witness ==
    /\ async
    /\ Returned
    /\ Len(stage_log) = 18
    /\ Cardinality(proj_done) = 2

\* The fields of a particle that resample, the integration and the collision
\* resolution write.
Written(p) == <<p.v, p.apic_b, p.dg_e, p.dg_cache, p.pos, p.last_update>>

\* C9: no step changes velocity, affine matrix, elastic deformation gradient,
\* deformation cache, position or last_update of a particle that is not UPDATING;
\* last_update changes only for an UPDATING particle, and then to current_t_int.
C9_NonUpdatingUnchanged ==
    [][\A p \in Pids :
          /\ particles[p].state # UPDATING => Written(particles'[p]) = Written(particles[p])
          /\ particles'[p].last_update # particles[p].last_update =>
                /\ particles[p].state = UPDATING
                /\ particles'[p].last_update = current_t_int]_vars

\* A buffer particle that sat out a tick in which another particle was updated.
C9_Witness ==
    /\ pc = "idle"
    /\ \E p, q \in Pids :
          /\ particles[p].state = BUFFER
          /\ particles[p].last_update < current_t_int
          /\ particles[q].state = UPDATING
          /\ particles[q].last_update = current_t_int
          /\ particles[q].v # SeedEdge.v

-----------------------------------------------------------------------------
(* rasterize on its own: SpecRaster starts MPM3D at the rasterize stage    *)
(* with the particles placed anywhere in the domain.                       *)

\* Every position of the domain, and a few of them for the seeds of a pair: cells
\* with the whole 4x4x4 support, cells at the lower and upper ends, and a particle
\* that sits on a node.
DomainPositions ==
    (0..(Res[1] * PosDen - 1)) \X (0..(Res[2] * PosDen - 1)) \X (0..(Res[3] * PosDen - 1))

SamplePositions ==
    {<<PosDen, PosDen, PosDen>>, <<PosDen + 1, PosDen + 1, PosDen>>,
     <<2 * PosDen - 1, PosDen, PosDen + 1>>, <<0, 0, 0>>, <<1, PosDen, PosDen>>,
     <<PosDen, 2 * PosDen, PosDen>>, <<2 * PosDen, 2 * PosDen, 2 * PosDen>>,
     <<Res[1] * PosDen - 1, PosDen, Res[3] * PosDen - 1>>}

RasterSeedSets ==
    {[p \in {1} |-> NewParticle(x, <<1, -1, 0>>, 0)] : x \in DomainPositions}
    \cup {[p \in {1, 2} |-> IF p = 1 THEN NewParticle(x, <<1, -1, 0>>, 0)
                                     ELSE NewParticle(y, <<3, 0, 0>>, 0)] :
             x \in SamplePositions, y \in SamplePositions}

InitRaster ==
    /\ async = FALSE
    /\ max_dt_ratio = 1
    /\ particles \in RasterSeedSets
    /\ \E A \in {Pids, {1}} :
          scheduler = [NewScheduler EXCEPT
                          !.particle_groups = [p \in Pids |-> CellOf(particles[p].pos)],
                          !.active_particles = A]
    /\ levelset = FloorLevelset
    /\ pc = "rasterize"
    /\ MpmDefaults
    /\ ScatterIdle
    /\ AssetIdle

SpecRaster == InitRaster /\ [][do_rasterize]_vars

\* The whole grid's mass, and the scattered particles' mass in the same unit.
TotalGridMass == SumF(grid_mass, Nodes)
TotalParticleMass ==
    W3Den * SumF([p \in ActiveParticles |-> particles[p].mass], ActiveParticles)

FullSupport(p) == Cardinality(get_bounded_rasterization_region(particles[p].pos)) = 64

\* C6 (as amended): after rasterize the grid's mass is the mass of the scattered
\* particles when the 4x4x4 support of each of them lies within the grid; when a
\* support is cut by the boundary the grid's mass is at most the particles' mass.
C6_MassConservedInside ==
    pc = "grid_backup_velocity" =>
        /\ (\A p \in ActiveParticles : FullSupport(p)) => TotalGridMass = TotalParticleMass
        /\ TotalGridMass <= TotalParticleMass
        /\ \A ind \in Nodes : grid_mass[ind] >= 0

\* Two particles with whole supports at different places, both scattered.
C6_Witness ==
    /\ pc = "grid_backup_velocity"
    /\ ActiveParticles = {1, 2}
    /\ \A p \in ActiveParticles : FullSupport(p)
    /\ particles[1].pos # particles[2].pos
    /\ TotalGridMass = 2 * W3Den

\* C6 as claimed: the grid's mass is the scattered particles' mass, also for a
\* particle whose support is cut by the boundary.
C6_MassConservedEverywhere ==
    pc = "grid_backup_velocity" => TotalGridMass = TotalParticleMass

-----------------------------------------------------------------------------
(* grid_apply_boundary_conditions on its own: SpecBoundary starts MPM3D at *)
(* that stage with the oracle's samples and the grid velocity of two nodes *)
(* drawn from the cases of the three regimes.                              *)

ProbeA == <<0, 0, 0>>
ProbeB == <<1, 1, 1>>

\* Signed distances on both sides of each test of lines 221, 225 and 238.
PhiSamples == {0 - 3 * PosDen - 1, 0 - PosDen, 0, PosDen \div 2, PosDen, PosDen + 1}

OracleSamples ==
    [phi : PhiSamples, n : {<<0, 1, 0>>, <<1, 0, 0>>}, td : {0, 1}]

\* Far outside the band: such a node is skipped.
FarSample == [phi |-> 4 * PosDen, n |-> <<0, 1, 0>>, td |-> 0]

VelocitySamples == {<<1, -2, 0>>, <<-3, 4, 1>>}

InitBoundary ==
    /\ async = FALSE
    /\ max_dt_ratio = 1
    /\ particles = [p \in {1} |-> SeedInner]
    /\ \E active \in {{ProbeA}, {ProbeA, ProbeB}} :
          scheduler = [NewScheduler EXCEPT !.active_grid_points = active]
    /\ \E sa \in OracleSamples, sb \in OracleSamples, mu \in {-1, 0, 1} :
          levelset = [friction |-> mu,
                      sample |-> [ind \in Nodes |-> IF ind = ProbeA THEN sa
                                                    ELSE IF ind = ProbeB THEN sb
                                                    ELSE FarSample]]
    /\ \E va \in VelocitySamples :
          /\ grid_velocity = [ind \in Nodes |-> IF ind = ProbeA THEN va
                                                ELSE IF ind = ProbeB THEN <<0, 3, 1>>
                                                ELSE Zero3]
          /\ grid_velocity_backup = grid_velocity
    /\ grid_mass = [ind \in Nodes |-> IF ind \in {ProbeA, ProbeB} THEN W3Den ELSE 0]
    /\ pc = "grid_apply_boundary_conditions"
    /\ current_t_int = 0
    /\ current_t = 0
    /\ old_t_int = 0
    /\ t_int_increment = 0
    /\ original_t_int_increment = 0
    /\ stage_log = <<>>
    /\ force_done = {}
    /\ proj_done = {}
    /\ ncalls = 0
    /\ ScatterIdle
    /\ AssetIdle

SpecBoundary == InitBoundary /\ [][do_grid_apply_boundary_conditions]_vars

\* C8: after grid_apply_boundary_conditions every active node whose signed distance
\* is in (0, 1] on a surface of negative friction has exactly the boundary's own
\* velocity, whatever its velocity was.
C8_StickyBoundary ==
    pc = "resample" =>
        \A ind \in scheduler.active_grid_points :
            LET s == levelset.sample[ind] IN
            (0 < s.phi /\ s.phi <= PosDen /\ levelset.friction < 0) =>
                grid_velocity[ind] = VScale(s.td, s.n)

\* The example of the specification: phi = 0.5, n = (0,1,0), the boundary at rest,
\* velocity (1,-2,0) before and (0,0,0) after.
C8_Witness ==
    /\ pc = "resample"
    /\ ProbeA \in scheduler.active_grid_points
    /\ levelset.friction < 0
    /\ 2 * levelset.sample[ProbeA].phi = PosDen
    /\ levelset.sample[ProbeA].n = <<0, 1, 0>>
    /\ levelset.sample[ProbeA].td = 0
    /\ grid_velocity_backup[ProbeA] = <<1, -2, 0>>
    /\ grid_velocity[ProbeA] = <<0, 0, 0>>

-----------------------------------------------------------------------------
(* AssetManager, asset_manager.h lines 21-64.                              *)
(* An address holds at most one live object at a time; objects are told    *)
(* apart by a generation number.  A weak_ptr is the pair of the address    *)
(* and the generation it was made from, and has expired when that object   *)
(* is no longer the live one at the address.  NullAddr is ptr.get() of an  *)
(* empty shared_ptr.                                                       *)

\* How many ids insert_asset_ hands out, and how many objects are created.
MaxInserts == 4
MaxObjects == 3

NullAddr == "null"
Addrs == {"a1", "a2"}

\* std::weak_ptr<T>(ptr) for the shared_ptr that owns the live object at a.
WeakOf(a) == [addr |-> a, gen |-> IF a = NullAddr THEN 0 ELSE heap[a]]

\* weak_ptr::expired().
expired(wp) == IF wp.gen = 0 THEN TRUE ELSE heap[wp.addr] # wp.gen

\* std::map::erase(key).
map_erase(m, k) == [x \in DOMAIN m \ {k} |-> m[x]]

\* std::map::operator[](key) = value.
map_put(m, k, v) == [x \in DOMAIN m \cup {k} |-> IF x = k THEN v ELSE m[x]]

\* An insert that forgets to drop the expired asset's id.
erase_existing_id_Keep(m, existing_id) == m

\* Line 38: id_to_asset.erase(existing_id).
erase_existing_id(m, existing_id) == map_erase(m, existing_id)

\* A new object is created at a free address (make_shared and the like).
Allocate(a) ==
    /\ heap[a] = 0
    /\ next_gen <= MaxObjects
    /\ heap' = [heap EXCEPT ![a] = next_gen]
    /\ next_gen' = next_gen + 1
    /\ last_call' = [op |-> "allocate", addr |-> a, id |-> -1, err |-> ""]
    /\ UNCHANGED <<counter, asset_to_id, id_to_asset, returned>>

\* The last shared_ptr to the object at a goes away.
Release(a) ==
    /\ heap[a] # 0
    /\ heap' = [heap EXCEPT ![a] = 0]
    /\ last_call' = [op |-> "release", addr |-> a, id |-> -1, err |-> ""]
    /\ UNCHANGED <<counter, asset_to_id, id_to_asset, next_gen, returned>>

\* insert_asset_(ptr), lines 33-44, for a ptr with ptr.get() = a.
insert_asset_(a) ==
    /\ (IF a = NullAddr THEN TRUE ELSE heap[a] # 0)
    /\ counter < MaxInserts
    /\ LET found == a \in DOMAIN asset_to_id
           existing_id == asset_to_id[a]
       IN IF found /\ ~expired(id_to_asset[existing_id])
          THEN \* line 36: the assertion fails
               /\ last_call' = [op |-> "insert", addr |-> a, id |-> -1,
                                err |-> "Asset already exists"]
               /\ UNCHANGED <<counter, asset_to_id, id_to_asset, returned>>
          ELSE LET a2i == IF found THEN map_erase(asset_to_id, a) ELSE asset_to_id
                   i2a == IF found THEN erase_existing_id(id_to_asset, existing_id)
                          ELSE id_to_asset
                   id == counter
               IN /\ counter' = counter + 1
                  /\ id_to_asset' = map_put(i2a, id, WeakOf(a))
                  /\ asset_to_id' = map_put(a2i, a, id)
                  /\ returned' = Append(returned, id)
                  /\ last_call' = [op |-> "insert", addr |-> a, id |-> id, err |-> ""]
    /\ UNCHANGED <<heap, next_gen>>

\* get_asset_(id), lines 25-30.
get_asset_(id) ==
    /\ last_call' =
          [op |-> "get", id |-> id,
           addr |-> IF id \in DOMAIN id_to_asset THEN id_to_asset[id].addr ELSE "",
           err |-> IF id \notin DOMAIN id_to_asset THEN "Asset not found"
                   ELSE IF expired(id_to_asset[id]) THEN "Asset has been expired"
                   ELSE ""]
    /\ UNCHANGED <<counter, asset_to_id, id_to_asset, heap, next_gen, returned>>

MpmIdle ==
    /\ async = FALSE
    /\ max_dt_ratio = 1
    /\ particles = [p \in {} |-> SeedInner]
    /\ scheduler = NewScheduler
    /\ levelset = FloorLevelset
    /\ pc = "off"
    /\ MpmDefaults

InitAsset ==
    /\ counter = 0
    /\ asset_to_id = <<>>
    /\ id_to_asset = <<>>
    /\ heap = [a \in Addrs |-> 0]
    /\ next_gen = 1
    /\ returned = <<>>
    /\ last_call = [op |-> "none", addr |-> "", id |-> -1, err |-> ""]
    /\ MpmIdle
    /\ ScatterIdle

NextAsset ==
    \/ \E a \in Addrs : Allocate(a) /\ UNCHANGED <<mpm_vars, scatter_vars>>
    \/ \E a \in Addrs : Release(a) /\ UNCHANGED <<mpm_vars, scatter_vars>>
    \/ \E a \in Addrs \cup {NullAddr} : insert_asset_(a) /\ UNCHANGED <<mpm_vars, scatter_vars>>
    \/ \E id \in 0..MaxInserts : get_asset_(id) /\ UNCHANGED <<mpm_vars, scatter_vars>>

SpecAsset == InitAsset /\ [][NextAsset]_vars

\* The two maps are inverse to each other.
MapsInverse ==
    /\ \A a \in DOMAIN asset_to_id :
          /\ asset_to_id[a] \in DOMAIN id_to_asset
          /\ id_to_asset[asset_to_id[a]].addr = a
    /\ \A i \in DOMAIN id_to_asset :
          /\ id_to_asset[i].addr \in DOMAIN asset_to_id
          /\ asset_to_id[id_to_asset[i].addr] = i

\* C10: the ids insert_asset_ returns are all different; asset_to_id and
\* id_to_asset stay inverse maps, each id held by one address; and an insert at an
\* address whose registered asset is alive fails the assertion and changes nothing.
C10_AssetRegistry ==
    /\ [](/\ \A i, j \in 1..Len(returned) : i # j => returned[i] # returned[j]
          /\ \A i \in 1..Len(returned) : returned[i] < counter
          /\ MapsInverse
          /\ \A a, b \in DOMAIN asset_to_id : asset_to_id[a] = asset_to_id[b] => a = b)
    /\ [][(/\ last_call'.op = "insert"
           /\ last_call'.addr \in DOMAIN asset_to_id
           /\ ~expired(id_to_asset[asset_to_id[last_call'.addr]]))
          => (/\ last_call'.err = "Asset already exists"
              /\ UNCHANGED <<counter, asset_to_id, id_to_asset, returned>>)]_vars

\* An address was registered, its asset expired, a new object at the same address
\* was registered under a new id, and a further insert of it was refused.
C10_Witness ==
    /\ last_call.op = "insert"
    /\ last_call.err = "Asset already exists"
    /\ last_call.addr = "a1"
    /\ Len(returned) = 2
    /\ returned[1] = 0
    /\ asset_to_id = [a \in {"a1"} |-> 1]
    /\ heap["a1"] = 2

-----------------------------------------------------------------------------
(* The two parallel accumulation loops, mpm3.cpp lines 131-140 (rasterize) *)
(* and 200-214 (apply_deformation_force), at the granularity of one        *)
(* particle thread's lock / read / write / unlock of one grid node.        *)
(* Node values are floats: every sum is rounded to MantBits significant    *)
(* bits, round-to-nearest-even, as IEEE addition does with 24 bits.        *)

\* Significand width of the modelled float.
MantBits == 2

Pow2(e) == 2 ^ e

\* The smallest e with x < 2^(MantBits + e).
RECURSIVE ExpOf(_, _)
ExpOf(x, e) == IF x < Pow2(MantBits + e) THEN e ELSE ExpOf(x, e + 1)

\* Rounding of a non-negative real x to the nearest float, ties to even.
Fl(x) ==
    LET e == ExpOf(x, 0)
        q == x \div Pow2(e)
        r == x % Pow2(e)
    IN IF e = 0 THEN x
       ELSE LET half == Pow2(e - 1)
                up == r > half \/ (r = half /\ q % 2 = 1)
            IN (IF up THEN q + 1 ELSE q) * Pow2(e)

\* operator+= on a float.
FAdd(a, b) == Fl(a + b)

\* operator* by 1.0f / m, lines 145.
FDiv(a, m) == Fl(Quot(a, m))

Threads == {1, 2, 3}
ScatterNodes == {1, 2, 3}
Big == Pow2(MantBits)

\* Running without grid_locks.
UsesLock_No == FALSE

\* Lines 135 and 210: grid_locks[ind].lock() precedes the accumulation.
UsesLock == TRUE

\* The node thread t is working on.
IndOf(t) == contrib[t].region[th[t].k]

InAccumulation(t, n) ==
    /\ th[t].pc \in {"load", "store", "unlock"}
    /\ IndOf(t) = n

ThreadStart == [pc |-> "top", k |-> 1, reg_m |-> 0, reg_v |-> 0]

\* Loop head, lines 132 and 201-205: next node of the region, or the end of the
\* particle's work; the force pass skips a node of zero mass without locking it.
sc_top(t) ==
    /\ phase \in {"rasterize", "force"}
    /\ th[t].pc = "top"
    /\ IF th[t].k > Len(contrib[t].region)
       THEN th' = [th EXCEPT ![t].pc = "end"]
       ELSE IF phase = "force" /\ grid_mass[IndOf(t)] = 0
            THEN th' = [th EXCEPT ![t].k = @ + 1]
            ELSE th' = [th EXCEPT ![t].pc = "lock"]
    /\ UNCHANGED <<grid_mass, grid_velocity, grid_locks, phase, contrib>>

\* Lines 135, 210: grid_locks[ind].lock().
sc_lock(t) ==
    /\ th[t].pc = "lock"
    /\ UsesLock => grid_locks[IndOf(t)] = 0
    /\ grid_locks' = [grid_locks EXCEPT ![IndOf(t)] = t]
    /\ th' = [th EXCEPT ![t].pc = "load"]
    /\ UNCHANGED <<grid_mass, grid_velocity, phase, contrib>>

\* Lines 136-137, 211: the read half of +=.
sc_load(t) ==
    /\ th[t].pc = "load"
    /\ th' = [th EXCEPT ![t].pc = "store",
                        ![t].reg_m = grid_mass[IndOf(t)],
                        ![t].reg_v = grid_velocity[IndOf(t)]]
    /\ UNCHANGED <<grid_mass, grid_velocity, grid_locks, phase, contrib>>

\* Lines 136-137, 211: the write half of +=.
sc_store(t) ==
    /\ th[t].pc = "store"
    /\ LET n == IndOf(t)
       IN IF phase = "rasterize"
          THEN /\ grid_mass' = [grid_mass EXCEPT ![n] = FAdd(th[t].reg_m, contrib[t].m[n])]
               /\ grid_velocity' =
                     [grid_velocity EXCEPT ![n] = FAdd(th[t].reg_v, contrib[t].mv[n])]
          ELSE /\ grid_velocity' =
                     [grid_velocity EXCEPT ![n] = FAdd(th[t].reg_v, contrib[t].f[n])]
               /\ UNCHANGED grid_mass
    /\ th' = [th EXCEPT ![t].pc = "unlock"]
    /\ UNCHANGED <<grid_locks, phase, contrib>>

\* Lines 138, 212: grid_locks[ind].unlock().
sc_unlock(t) ==
    /\ th[t].pc = "unlock"
    /\ grid_locks' = [grid_locks EXCEPT ![IndOf(t)] = 0]
    /\ th' = [th EXCEPT ![t].pc = "top", ![t].k = @ + 1]
    /\ UNCHANGED <<grid_mass, grid_velocity, phase, contrib>>

\* End of rasterize's parallel loop and the normalisation, lines 140-148; the
\* force pass's threads start.
sc_rasterize_join ==
    /\ phase = "rasterize"
    /\ \A t \in Threads : th[t].pc = "end"
    /\ grid_velocity' = [n \in ScatterNodes |->
                            IF grid_mass[n] > 0 THEN FDiv(grid_velocity[n], grid_mass[n])
                            ELSE grid_velocity[n]]
    /\ phase' = "force"
    /\ th' = [t \in Threads |-> ThreadStart]
    /\ UNCHANGED <<grid_mass, grid_locks, contrib>>

\* End of the force pass's parallel loop, line 214.
sc_force_join ==
    /\ phase = "force"
    /\ \A t \in Threads : th[t].pc = "end"
    /\ phase' = "done"
    /\ UNCHANGED <<grid_mass, grid_velocity, grid_locks, th, contrib>>

\* Three particles: two share nodes 1 and 2, the third touches node 2 and has
\* weight zero on node 3.  m is weight * mass, mv is m times a unit velocity, f is
\* delta_t / mass * force.
ScatterInputs ==
    {[t \in Threads |->
        CASE t = 1 -> [region |-> <<1, 2>>,
                       m  |-> [n \in ScatterNodes |-> IF n = 1 THEN a ELSE IF n = 2 THEN b ELSE 0],
                       mv |-> [n \in ScatterNodes |-> IF n = 1 THEN a ELSE IF n = 2 THEN b ELSE 0],
                       f  |-> [n \in ScatterNodes |-> IF n = 2 THEN c ELSE IF n = 1 THEN 1 ELSE 0]]
          [] t = 2 -> [region |-> <<1, 2>>,
                       m  |-> [n \in ScatterNodes |-> IF n = 3 THEN 0 ELSE 1],
                       mv |-> [n \in ScatterNodes |-> IF n = 3 THEN 0 ELSE 1],
                       f  |-> [n \in ScatterNodes |-> IF n = 3 THEN 0 ELSE 1]]
          [] t = 3 -> [region |-> <<2, 3>>,
                       m  |-> [n \in ScatterNodes |-> IF n = 2 THEN 1 ELSE 0],
                       mv |-> [n \in ScatterNodes |-> IF n = 2 THEN 1 ELSE 0],
                       f  |-> [n \in ScatterNodes |-> IF n = 1 THEN 0 ELSE 1]]] :
      a \in {0, 1}, b \in {1, Big}, c \in {1, Big}}

\* rasterize() after its two reset() calls, lines 129-130.
InitScatter ==
    /\ contrib \in ScatterInputs
    /\ th = [t \in Threads |-> ThreadStart]
    /\ phase = "rasterize"
    /\ grid_locks = [n \in ScatterNodes |-> 0]
    /\ grid_mass = [n \in ScatterNodes |-> 0]
    /\ grid_velocity = [n \in ScatterNodes |-> 0]
    /\ async = FALSE
    /\ max_dt_ratio = 1
    /\ particles = [p \in {} |-> SeedInner]
    /\ scheduler = NewScheduler
    /\ levelset = FloorLevelset
    /\ pc = "off"
    /\ current_t_int = 0
    /\ current_t = 0
    /\ old_t_int = 0
    /\ t_int_increment = 0
    /\ original_t_int_increment = 0
    /\ grid_velocity_backup = ZeroGrid
    /\ stage_log = <<>>
    /\ force_done = {}
    /\ proj_done = {}
    /\ ncalls = 0
    /\ AssetIdle

scatter_frame ==
    <<particles, async, max_dt_ratio, current_t_int, current_t, old_t_int,
      t_int_increment, original_t_int_increment, grid_velocity_backup, scheduler,
      levelset, pc, stage_log, force_done, proj_done, ncalls, asset_vars>>

NextScatter ==
    \/ \E t \in Threads : sc_top(t) /\ UNCHANGED scatter_frame
    \/ \E t \in Threads : sc_lock(t) /\ UNCHANGED scatter_frame
    \/ \E t \in Threads : sc_load(t) /\ UNCHANGED scatter_frame
    \/ \E t \in Threads : sc_store(t) /\ UNCHANGED scatter_frame
    \/ \E t \in Threads : sc_unlock(t) /\ UNCHANGED scatter_frame
    \/ sc_rasterize_join /\ UNCHANGED scatter_frame
    \/ sc_force_join /\ UNCHANGED scatter_frame

SpecScatter == InitScatter /\ [][NextScatter]_vars

\* The threads whose region holds node n, and every order they can come in.
Contributors(n) ==
    {t \in Threads : \E k \in 1..Len(contrib[t].region) : contrib[t].region[k] = n}
Orders(S) ==
    {s \in [1..Cardinality(S) -> S] : \A i, j \in 1..Cardinality(S) : i # j => s[i] # s[j]}

RECURSIVE FoldAdd(_, _)
FoldAdd(acc, seq) ==
    IF seq = <<>> THEN acc ELSE FoldAdd(FAdd(acc, Head(seq)), Tail(seq))

\* What node n can hold after each contributor added its term once, one after
\* another, to the start value.
SerialSums(start, n, field) ==
    {FoldAdd(start, [i \in 1..Len(s) |-> contrib[s[i]][field][n]]) :
        s \in Orders(Contributors(n))}

\* The term of the thread that is writing node n.
WriteOf(n, field) ==
    {contrib[t][field][n] : t \in {u \in Threads : th[u].pc = "store" /\ IndOf(u) = n}}

\* C5: no two threads are inside the accumulation of one node at once; every write
\* adds the writer's term to the node's latest value (no update is lost); and each
\* node ends with its contributors' terms added once each in some order.
C5_LockedAccumulation ==
    /\ [](\A n \in ScatterNodes : \A t, u \in Threads :
             InAccumulation(t, n) /\ InAccumulation(u, n) => t = u)
    /\ [][\A n \in ScatterNodes :
            /\ grid_mass'[n] # grid_mass[n] =>
                  \E x \in WriteOf(n, "m") : grid_mass'[n] = FAdd(grid_mass[n], x)
            /\ (phase' = phase /\ grid_velocity'[n] # grid_velocity[n]) =>
                  \E x \in WriteOf(n, IF phase = "rasterize" THEN "mv" ELSE "f") :
                      grid_velocity'[n] = FAdd(grid_velocity[n], x)]_vars
    /\ [](phase = "done" =>
            \A n \in ScatterNodes :
               /\ grid_mass[n] \in SerialSums(0, n, "m")
               /\ IF grid_mass[n] = 0 THEN grid_velocity[n] = 0
                  ELSE grid_velocity[n] \in SerialSums(1, n, "f"))

\* A thread waits for the lock of node 2 while another is adding its force term
\* to it, after a rasterize pass in which all three threads added mass to node 2.
C5_Witness ==
    /\ phase = "force"
    /\ grid_mass[2] >= 3
    /\ \E t, u \in Threads :
          /\ t # u
          /\ th[t].pc = "lock"
          /\ IndOf(t) = 2
          /\ th[u].pc = "store"
          /\ IndOf(u) = 2
          /\ grid_locks[2] = u

\* The real-number sum of the mass terms of node n.
ExactMass(n) == SumF([t \in Contributors(n) |-> contrib[t].m[n]], Contributors(n))

\* C5 as stated: each node ends with exactly the sum of the contributions, whatever
\* the order the threads came in.
C5_ExactSumAnyOrder ==
    phase = "done" => \A n \in ScatterNodes : grid_mass[n] = ExactMass(n)

=============================================================================
